---- MODULE Spec2Model ----
(***************************************************************************)
(* Lifecycle of the language-client extension (client/src/extension.ts).   *)
(*                                                                         *)
(* extension.ts owns one module-level reference `client`, the async        *)
(* function activate and the function deactivate.  The LanguageClient      *)
(* class, the command registry, the output channel, the file watcher and   *)
(* the host's disposal of context.subscriptions are collaborators whose    *)
(* code is not part of the sources; they are modelled from the design      *)
(* document (SessionHandle state machine, FileWatchBridge, Disposable).    *)
(*                                                                         *)
(* A handle is identified by the ordinal of the activate call that         *)
(* constructed it: every activate call runs lines 23-76 synchronously and  *)
(* constructs exactly one LanguageClient.                                  *)
(***************************************************************************)
EXTENDS Integers, FiniteSets, Sequences, TLC

\* Number of activate calls explored (one handle per call).
MaxHandles == 2

Handles == 1..MaxHandles

\* Values of a JavaScript reference that is not an object.
Undefined == 0
Null == 0 - 1

\* Lifecycle states of a SessionHandle; "Absent" marks a handle that no
\* activate call has constructed yet.
Absent == "Absent"
Lifecycle == <<"Uninitialized", "Starting", "Running", "Stopping", "Stopped">>
NonTerminal == {"Uninitialized", "Starting", "Running", "Stopping"}

\* process.env: a partial mapping from variable names to strings.
\* The inputs cover: no variable set, SERVER_PATH empty, SERVER_PATH set
\* together with RUST_LOG.
Envs ==
  { <<>>,
    [k \in {"SERVER_PATH"} |-> ""],
    [k \in {"SERVER_PATH", "RUST_LOG"} |-> IF k = "SERVER_PATH" THEN "/opt/gls" ELSE "info"] }

\* Documents and events offered to a session.
Schemes == {"file", "untitled"}
Languages == {"gen", "rust"}
\* One resource locator stands for every argument that console.log can
\* format: the handler treats them all alike.
Uris == {"file:///a.gen"}

\* Arguments of the command handler: what console.log prints for the value
\* and whether formatting it completes.  Strings (the resource locators),
\* undefined, numbers and plain objects format without a fault; an object
\* whose custom inspection function throws does not.
CommandArgs ==
  {[text |-> u, inspect |-> "ok"] : u \in Uris}
    \cup {[text |-> "[object]", inspect |-> "throws"]}
FileEvent == <<"fileEvent", "**/*.gen">>

Kinds == {"command", "trace", "watcher"}
Disposables == Kinds \X Handles

VARIABLES
  client,           \* the module-level `let client`
  nHandles,         \* number of LanguageClient objects constructed so far
  state,            \* lifecycle state of every handle
  spawnAttempts,    \* how often the external process was launched per handle
  handshake,        \* the external process completed the handshake
  startCompletion,  \* promise returned by client.start()
  activation,       \* promise returned by activate
  stopRequested,    \* stop() was called on the handle
  ack,              \* the external process acknowledged shutdown
  stopCompletion,   \* promise returned by the stop() that left Running
  deact,            \* outcome of the most recent deactivate call
  created,          \* disposables created by activate calls
  subscriptions,    \* context.subscriptions
  released,         \* how often each disposable was released
  hostDisposed,     \* the host disposed context.subscriptions after deactivate
  forwarded,        \* the latest event that reached a session: <<handle, event>>
  processEnv,       \* process.env as read by the latest activate
  serverOptions,    \* the ServerOptions built by the latest activate
  console,          \* last line written by console.log
  commandReturn     \* how the latest run of the command handler settled

vars == <<client, nHandles, state, spawnAttempts, handshake, startCompletion,
          activation, stopRequested, ack, stopCompletion, deact, created,
          subscriptions, released, hostDisposed, forwarded, processEnv,
          serverOptions, console, commandReturn>>

----------------------------------------------------------------------------
(* Pure parts of activate *)

\* process.env.SERVER_PATH ?? 'generic-language-server': the right operand
\* is used only when the left one is undefined (or null).
Command(env) ==
  IF "SERVER_PATH" \in DOMAIN env THEN env["SERVER_PATH"] ELSE "generic-language-server"

\* Variant: the inherited environment is spread after the override, so an
\* inherited RUST_LOG wins.
SpreadEnv_InheritedWins(env) ==
  [k \in DOMAIN env \cup {"RUST_LOG"} |-> IF k \in DOMAIN env THEN env[k] ELSE "debug"]

\* { ...process.env, RUST_LOG: 'debug' }
SpreadEnv(env) ==
  [k \in DOMAIN env \cup {"RUST_LOG"} |-> IF k = "RUST_LOG" THEN "debug" ELSE env[k]]

Run(env) == [command |-> Command(env), env |-> SpreadEnv(env)]

\* Variant: the debug profile is launched with the inherited environment.
ServerOptions_DebugInherits(env) ==
  [run |-> Run(env), debug |-> [command |-> Command(env), env |-> env]]

\* { run, debug: run }
ServerOptions(env) == [run |-> Run(env), debug |-> Run(env)]

\* Variant: the selector names another language.
DocumentSelector_OtherLanguage == [scheme |-> "file", language |-> "rust"]

\* documentSelector: [{ scheme: 'file', language: 'gen' }]
DocumentSelector == [scheme |-> "file", language |-> "gen"]

WatchGlob == "**/*.gen"

Matches(scheme, language) ==
  scheme = DocumentSelector.scheme /\ language = DocumentSelector.language

----------------------------------------------------------------------------
(* SessionHandle state machine *)

\* new LanguageClient(...)
NewLanguageClient == "Uninitialized"

\* start(): Uninitialized -> Starting
StartTransition(s) == IF s = "Uninitialized" THEN "Starting" ELSE s

\* stop(): Running -> Stopping; a handle in any other state is left alone
StopTransition(s) == IF s = "Running" THEN "Stopping" ELSE s

\* Variant: the session accepts events as soon as start() was called.
ForwardingOpen_WhileStarting(s) == s \in {"Starting", "Running"}

\* Events are handed to the session only once it is Running.
ForwardingOpen(s) == s = "Running"

\* `client === null`
StrictEqualsNull(ref) == ref = Null

----------------------------------------------------------------------------
Init ==
  /\ client = Undefined
  /\ nHandles = 0
  /\ state = [h \in Handles |-> Absent]
  /\ spawnAttempts = [h \in Handles |-> 0]
  /\ handshake = [h \in Handles |-> FALSE]
  /\ startCompletion = [h \in Handles |-> "none"]
  /\ activation = [h \in Handles |-> "none"]
  /\ stopRequested = [h \in Handles |-> FALSE]
  /\ ack = [h \in Handles |-> FALSE]
  /\ stopCompletion = [h \in Handles |-> "none"]
  /\ deact = [result |-> "none", ref |-> Undefined]
  /\ created = {}
  /\ subscriptions = {}
  /\ released = [d \in Disposables |-> 0]
  /\ hostDisposed = FALSE
  /\ forwarded = <<>>
  /\ processEnv = <<>>
  /\ serverOptions = ServerOptions(<<>>)
  /\ console = ""
  /\ commandReturn = "none"

\* Variant: activate stops the handle it is about to replace.
Activate_StopsPrevious(env) ==
  /\ nHandles < MaxHandles
  /\ LET h == nHandles + 1 IN
       /\ created' = created \cup {<<"command", h>>, <<"trace", h>>, <<"watcher", h>>}
       /\ subscriptions' = subscriptions \cup {<<"command", h>>}
       /\ processEnv' = env
       /\ serverOptions' = ServerOptions(env)
       /\ client' = h
       /\ nHandles' = h
       /\ state' = [g \in Handles |->
                      IF g = h THEN StartTransition(NewLanguageClient)
                      ELSE IF g = client THEN StopTransition(state[g]) ELSE state[g]]
       /\ stopRequested' = [g \in Handles |-> stopRequested[g] \/ g = client]
       /\ stopCompletion' = [g \in Handles |->
                               IF g = client /\ state[g] = "Running" THEN "pending"
                               ELSE stopCompletion[g]]
       /\ spawnAttempts' = [spawnAttempts EXCEPT ![h] = @ + 1]
       /\ startCompletion' = [startCompletion EXCEPT ![h] = "pending"]
       /\ activation' = [activation EXCEPT ![h] = "awaiting"]
  /\ hostDisposed' = FALSE
  /\ console' = "Running Generic LSP extention"
  /\ UNCHANGED <<handshake, ack, deact, released, forwarded,
                 commandReturn>>

\* Variant: the reference is assigned only after start() has resolved, so
\* the synchronous part of activate leaves it as it was.
Activate_AssignsAfterStart(env) ==
  /\ nHandles < MaxHandles
  /\ LET h == nHandles + 1 IN
       /\ created' = created \cup {<<"command", h>>, <<"trace", h>>, <<"watcher", h>>}
       /\ subscriptions' = subscriptions \cup {<<"command", h>>}
       /\ processEnv' = env
       /\ serverOptions' = ServerOptions(env)
       /\ nHandles' = h
       /\ state' = [state EXCEPT ![h] = StartTransition(NewLanguageClient)]
       /\ spawnAttempts' = [spawnAttempts EXCEPT ![h] = @ + 1]
       /\ startCompletion' = [startCompletion EXCEPT ![h] = "pending"]
       /\ activation' = [activation EXCEPT ![h] = "awaiting"]
  /\ hostDisposed' = FALSE
  /\ console' = "Running Generic LSP extention"
  /\ UNCHANGED <<client, handshake, stopRequested, ack, stopCompletion, deact,
                 released, forwarded,
                 commandReturn>>

\* activate, lines 23-76 up to the suspension at `await client.start()`.
\* hostDisposed is bookkeeping of the host, not of the code: an activation
\* opens a new period in which the host has not yet torn the extension down.
Activate(env) ==
  /\ nHandles < MaxHandles
  /\ LET h == nHandles + 1 IN
       /\ created' = created \cup {<<"command", h>>, <<"trace", h>>, <<"watcher", h>>}
       /\ subscriptions' = subscriptions \cup {<<"command", h>>}
       /\ processEnv' = env
       /\ serverOptions' = ServerOptions(env)
       /\ client' = h
       /\ nHandles' = h
       /\ state' = [state EXCEPT ![h] = StartTransition(NewLanguageClient)]
       /\ spawnAttempts' = [spawnAttempts EXCEPT ![h] = @ + 1]
       /\ startCompletion' = [startCompletion EXCEPT ![h] = "pending"]
       /\ activation' = [activation EXCEPT ![h] = "awaiting"]
  /\ hostDisposed' = FALSE
  /\ console' = "Running Generic LSP extention"
  /\ UNCHANGED <<handshake, stopRequested, ack, stopCompletion, deact,
                 released, forwarded,
                 commandReturn>>

\* Variant: the continuation swallows a rejected start (try/catch).
ActivateResume_Swallows(h) ==
  /\ activation[h] = "awaiting"
  /\ startCompletion[h] \in {"resolved", "rejected"}
  /\ activation' = [activation EXCEPT ![h] = "resolved"]
  /\ UNCHANGED <<client, nHandles, state, spawnAttempts, handshake,
                 startCompletion, stopRequested, ack, stopCompletion, deact,
                 created, subscriptions, released, hostDisposed, forwarded,
                 processEnv, serverOptions, commandReturn, console>>

\* Variant: activate does not wait for start() (a missing await).
ActivateResume_NoAwait(h) ==
  /\ activation[h] = "awaiting"
  /\ activation' = [activation EXCEPT ![h] = "resolved"]
  /\ UNCHANGED <<client, nHandles, state, spawnAttempts, handshake,
                 startCompletion, stopRequested, ack, stopCompletion, deact,
                 created, subscriptions, released, hostDisposed, forwarded,
                 processEnv, serverOptions, commandReturn, console>>

\* activate, line 76-77: the continuation of `await client.start()`.
ActivateResume(h) ==
  /\ activation[h] = "awaiting"
  /\ startCompletion[h] \in {"resolved", "rejected"}
  /\ activation' = [activation EXCEPT ![h] = startCompletion[h]]
  /\ UNCHANGED <<client, nHandles, state, spawnAttempts, handshake,
                 startCompletion, stopRequested, ack, stopCompletion, deact,
                 created, subscriptions, released, hostDisposed, forwarded,
                 processEnv, serverOptions, commandReturn, console>>

\* Variant: deactivate resets the reference after calling stop().
Deactivate_ClearsReference ==
  /\ console' = "Exiting Generic LSP extention"
  /\ IF StrictEqualsNull(client)
       THEN /\ deact' = [result |-> "undefined", ref |-> client]
            /\ UNCHANGED <<state, stopRequested, stopCompletion>>
       ELSE IF client = Undefined
         THEN \* client.stop() on undefined: TypeError thrown by the call
              /\ deact' = [result |-> "threw", ref |-> client]
              /\ UNCHANGED <<state, stopRequested, stopCompletion>>
         ELSE /\ deact' = [result |-> "thenable", ref |-> client]
              /\ stopRequested' = [stopRequested EXCEPT ![client] = TRUE]
              /\ state' = [state EXCEPT ![client] = StopTransition(@)]
              /\ stopCompletion' = [stopCompletion EXCEPT ![client] =
                                      IF state[client] = "Running" THEN "pending" ELSE @]
  /\ client' = IF client \in Handles THEN Null ELSE client
  /\ UNCHANGED <<nHandles, spawnAttempts, handshake, startCompletion,
                 activation, ack, created, subscriptions, released,
                 hostDisposed, forwarded, processEnv, serverOptions, commandReturn>>

\* deactivate, lines 79-85.
Deactivate ==
  /\ console' = "Exiting Generic LSP extention"
  /\ IF StrictEqualsNull(client)
       THEN /\ deact' = [result |-> "undefined", ref |-> client]
            /\ UNCHANGED <<state, stopRequested, stopCompletion>>
       ELSE IF client = Undefined
         THEN \* client.stop() on undefined: TypeError thrown by the call
              /\ deact' = [result |-> "threw", ref |-> client]
              /\ UNCHANGED <<state, stopRequested, stopCompletion>>
         ELSE /\ deact' = [result |-> "thenable", ref |-> client]
              /\ stopRequested' = [stopRequested EXCEPT ![client] = TRUE]
              /\ state' = [state EXCEPT ![client] = StopTransition(@)]
              /\ stopCompletion' = [stopCompletion EXCEPT ![client] =
                                      IF state[client] = "Running" THEN "pending" ELSE @]
  /\ UNCHANGED <<client, nHandles, spawnAttempts, handshake, startCompletion,
                 activation, ack, created, subscriptions, released,
                 hostDisposed, forwarded, processEnv, serverOptions, commandReturn>>

\* The external process cannot be spawned: start()'s promise is rejected.
SpawnFailure(h) ==
  /\ state[h] = "Starting"
  /\ startCompletion[h] = "pending"
  /\ ~handshake[h]
  /\ startCompletion' = [startCompletion EXCEPT ![h] = "rejected"]
  /\ UNCHANGED <<client, nHandles, state, spawnAttempts, handshake, activation,
                 stopRequested, ack, stopCompletion, deact, created,
                 subscriptions, released, hostDisposed, forwarded,
                 processEnv, serverOptions, commandReturn, console>>

\* The external process answers the handshake.
ServerHandshake(h) ==
  /\ state[h] = "Starting"
  /\ startCompletion[h] = "pending"
  /\ ~handshake[h]
  /\ handshake' = [handshake EXCEPT ![h] = TRUE]
  /\ UNCHANGED <<client, nHandles, state, spawnAttempts, startCompletion,
                 activation, stopRequested, ack, stopCompletion, deact,
                 created, subscriptions, released, hostDisposed, forwarded,
                 processEnv, serverOptions, commandReturn, console>>

\* The handle processes the handshake answer: Starting -> Running and
\* start()'s promise resolves.
StartResolved(h) ==
  /\ state[h] = "Starting"
  /\ handshake[h]
  /\ state' = [state EXCEPT ![h] = "Running"]
  /\ startCompletion' = [startCompletion EXCEPT ![h] = "resolved"]
  /\ UNCHANGED <<client, nHandles, spawnAttempts, handshake, activation,
                 stopRequested, ack, stopCompletion, deact, created,
                 subscriptions, released, hostDisposed, forwarded,
                 processEnv, serverOptions, commandReturn, console>>

\* The external process acknowledges the shutdown request.
ShutdownAcknowledge(h) ==
  /\ state[h] = "Stopping"
  /\ ~ack[h]
  /\ ack' = [ack EXCEPT ![h] = TRUE]
  /\ UNCHANGED <<client, nHandles, state, spawnAttempts, handshake,
                 startCompletion, activation, stopRequested, stopCompletion,
                 deact, created, subscriptions, released, hostDisposed,
                 forwarded, processEnv, serverOptions, commandReturn, console>>

\* Variant: the handle gives up waiting (a shutdown timeout with forced
\* termination) and settles without the acknowledgment.
StopSettle_Timeout(h) ==
  /\ state[h] = "Stopping"
  /\ state' = [state EXCEPT ![h] = "Stopped"]
  /\ stopCompletion' = [stopCompletion EXCEPT ![h] = "resolved"]
  /\ released' = [released EXCEPT ![<<"watcher", h>>] = @ + 1]
  /\ UNCHANGED <<client, nHandles, spawnAttempts, handshake, startCompletion,
                 activation, stopRequested, ack, deact, created, subscriptions,
                 hostDisposed, forwarded, processEnv, serverOptions, commandReturn, console>>

\* Variant: stopping a session leaves its file-watch bridge in place.
StopSettle_KeepsWatcher(h) ==
  /\ state[h] = "Stopping"
  /\ ack[h]
  /\ state' = [state EXCEPT ![h] = "Stopped"]
  /\ stopCompletion' = [stopCompletion EXCEPT ![h] = "resolved"]
  /\ UNCHANGED <<client, nHandles, spawnAttempts, handshake, startCompletion,
                 activation, stopRequested, ack, deact, created, subscriptions,
                 released, hostDisposed, forwarded, processEnv, serverOptions, commandReturn,
                 console>>

\* The handle processes the acknowledgment: Stopping -> Stopped, stop()'s
\* promise resolves and the session's file-watch bridge is released.
StopSettle(h) ==
  /\ state[h] = "Stopping"
  /\ ack[h]
  /\ state' = [state EXCEPT ![h] = "Stopped"]
  /\ stopCompletion' = [stopCompletion EXCEPT ![h] = "resolved"]
  /\ released' = [released EXCEPT ![<<"watcher", h>>] = @ + 1]
  /\ UNCHANGED <<client, nHandles, spawnAttempts, handshake, startCompletion,
                 activation, stopRequested, ack, deact, created, subscriptions,
                 hostDisposed, forwarded, processEnv, serverOptions, commandReturn, console>>

\* The promise (if any) returned by the latest deactivate is no longer pending.
DeactSettled ==
  /\ deact.result # "none"
  /\ deact.result = "thenable" => state[deact.ref] # "Stopping"

\* Host shutdown: after deactivate the host disposes context.subscriptions.
HostDispose ==
  /\ ~hostDisposed
  /\ DeactSettled
  /\ released' = [d \in Disposables |-> IF d \in subscriptions THEN released[d] + 1 ELSE released[d]]
  /\ subscriptions' = {}
  /\ hostDisposed' = TRUE
  /\ UNCHANGED <<client, nHandles, state, spawnAttempts, handshake,
                 startCompletion, activation, stopRequested, ack,
                 stopCompletion, deact, created, forwarded, processEnv, serverOptions, commandReturn,
                 console>>

\* console.log(value): formatting the value runs its inspection function.
ConsoleLogThrows(arg) == arg.inspect = "throws"

\* The handler registered for 'helloworld.helloWorld', lines 23-28: it logs
\* a fixed line and then its argument.  When formatting the argument throws,
\* the exception leaves the async handler: the argument is not logged and
\* the handler's promise is rejected; otherwise it resolves with undefined.
InvokeCommand(arg) ==
  /\ \E h \in Handles : <<"command", h>> \in created /\ released[<<"command", h>>] = 0
  /\ console' = IF ConsoleLogThrows(arg)
                  THEN "Running command registered as helloworld.helloWorld"
                  ELSE arg.text
  /\ commandReturn' = IF ConsoleLogThrows(arg) THEN "rejected" ELSE "undefined"
  /\ UNCHANGED <<client, nHandles, state, spawnAttempts, handshake,
                 startCompletion, activation, stopRequested, ack,
                 stopCompletion, deact, created, subscriptions, released,
                 hostDisposed, forwarded, processEnv, serverOptions>>

\* A document event of the editor offered to the session of handle h: it is
\* forwarded when the document is in scope and the session is Running.
DocumentEvent(h, scheme, language) ==
  /\ state[h] # Absent
  /\ forwarded' = IF ForwardingOpen(state[h]) /\ Matches(scheme, language)
                    THEN <<h, <<scheme, language>>>> ELSE forwarded
  /\ UNCHANGED <<client, nHandles, state, spawnAttempts, handshake,
                 startCompletion, activation, stopRequested, ack,
                 stopCompletion, deact, created, subscriptions, released,
                 hostDisposed, processEnv, serverOptions, commandReturn, console>>

\* The watcher of handle h reports a change of a '**/*.gen' file.
WatchedFileEvent(h) ==
  /\ <<"watcher", h>> \in created
  /\ released[<<"watcher", h>>] = 0
  /\ forwarded' = IF ForwardingOpen(state[h]) THEN <<h, FileEvent>> ELSE forwarded
  /\ UNCHANGED <<client, nHandles, state, spawnAttempts, handshake,
                 startCompletion, activation, stopRequested, ack,
                 stopCompletion, deact, created, subscriptions, released,
                 hostDisposed, processEnv, serverOptions, commandReturn, console>>

Next ==
  \/ \E env \in Envs : Activate(env)
  \/ \E h \in Handles : ActivateResume(h)
  \/ Deactivate
  \/ \E h \in Handles : SpawnFailure(h)
  \/ \E h \in Handles : ServerHandshake(h)
  \/ \E h \in Handles : StartResolved(h)
  \/ \E h \in Handles : ShutdownAcknowledge(h)
  \/ \E h \in Handles : StopSettle(h)
  \/ HostDispose
  \/ \E arg \in CommandArgs : InvokeCommand(arg)
  \/ \E h \in Handles, scheme \in Schemes, language \in Languages : DocumentEvent(h, scheme, language)
  \/ \E h \in Handles : WatchedFileEvent(h)

Spec == Init /\ [][Next]_vars

\* The lifecycle steps alone.  Document events, file events and runs of the
\* command handler leave every lifecycle variable unchanged, so the fair
\* specification of the shutdown leaves them out.
LifecycleNext ==
  \/ \E env \in Envs : Activate(env)
  \/ \E h \in Handles : ActivateResume(h)
  \/ Deactivate
  \/ \E h \in Handles : SpawnFailure(h)
  \/ \E h \in Handles : ServerHandshake(h)
  \/ \E h \in Handles : StartResolved(h)
  \/ \E h \in Handles : ShutdownAcknowledge(h)
  \/ \E h \in Handles : StopSettle(h)
  \/ HostDispose

\* The event loop runs every continuation that is ready.
LiveSpec ==
  Init /\ [][LifecycleNext]_vars /\ WF_vars(\E h \in Handles : StopSettle(h))

----------------------------------------------------------------------------
(* Properties *)

\* C1: a deactivate called while no handle was ever constructed takes the
\* no-op path: it returns undefined, does not throw and calls stop() on no
\* handle.
C1_StopWithoutStartIsNoop ==
  (deact.result # "none" /\ deact.ref = Undefined) =>
     (deact.result = "undefined" /\ \A h \in Handles : ~stopRequested[h])

\* C2: whatever the reference holds when deactivate is called, the call does
\* not throw: it returns a completion or the no-op value.
C2_DeactivateNeverThrows == deact.result \in {"none", "undefined", "thenable"}

\* C3: at most one handle is in a non-terminal lifecycle state.
C3_AtMostOneLiveHandle ==
  Cardinality({h \in Handles : state[h] \in NonTerminal}) <= 1

\* C4: each activate constructs a fresh handle and leaves every existing
\* handle as it is, the reference always designates the handle constructed
\* last, and a handle that was replaced before stop() was called on it is
\* never stopped afterwards, whatever is called later.
C4_SecondStartOrphansFirst ==
  /\ [](client = nHandles)
  /\ [][ /\ client' # client =>
              \A h \in Handles : state[h] # Absent =>
                 (state'[h] = state[h] /\ stopRequested'[h] = stopRequested[h])
         /\ \A h \in Handles : (h < client /\ ~stopRequested[h]) =>
              (h < client' /\ ~stopRequested'[h] /\ state'[h] \notin {"Stopping", "Stopped"}) ]_vars

\* C4 witness: two activates without a stop in between, then a deactivate
\* that ran to completion on the second handle; the first is still Running
\* and stop() was never called on it.
C4_Witness ==
  /\ client = 2
  /\ state[1] = "Running" /\ ~stopRequested[1]
  /\ state[2] = "Stopped" /\ stopRequested[2]

\* C5: the lifecycle state of a handle changes only one step forward along
\* Uninitialized -> Starting -> Running -> Stopping -> Stopped, and stop() is
\* applied only to a handle that is Running.  The activate call that
\* constructs a handle starts it before it returns, so the step in which a
\* handle appears goes through Uninitialized to Starting.
LifecycleIndex(s) == CHOOSE i \in 1..Len(Lifecycle) : Lifecycle[i] = s

C5_LifecycleChain ==
  [][\A h \in Handles :
        /\ state'[h] # state[h] =>
              /\ state'[h] \in {Lifecycle[i] : i \in 2..Len(Lifecycle)}
              /\ IF state[h] = Absent
                   THEN LifecycleIndex(state'[h]) = LifecycleIndex(NewLanguageClient) + 1
                   ELSE LifecycleIndex(state'[h]) = LifecycleIndex(state[h]) + 1
        /\ (stopRequested'[h] /\ ~stopRequested[h]) => state[h] = "Running"]_vars

\* C6: start()'s completion is resolved only after the handshake, and an
\* event reaches a session only after that session's start() has resolved.
C6_ForwardOnlyAfterStart ==
  \A h \in Handles :
     /\ startCompletion[h] = "resolved" => handshake[h]
     /\ (forwarded # <<>> /\ forwarded[1] = h) => startCompletion[h] = "resolved"

\* C6 witness: a file event and a document event were offered and one of
\* them reached a session whose start() had resolved.
C6_Witness ==
  /\ forwarded # <<>>
  /\ startCompletion[forwarded[1]] = "resolved"
  /\ \E h \in Handles : state[h] = "Starting"

\* C7: when the process cannot be spawned, start()'s completion is rejected,
\* activate does not resolve (it is rejected once it resumes), the process
\* was launched exactly once for that handle and the handle is not Running
\* or beyond.
C7_LaunchFailure ==
  \A h \in Handles : startCompletion[h] = "rejected" =>
     /\ activation[h] \in {"awaiting", "rejected"}
     /\ spawnAttempts[h] = 1
     /\ state[h] = "Starting"
     /\ ~handshake[h]

\* C7 witness: a failed spawn whose activate has been rejected.
C7_Witness ==
  \E h \in Handles : startCompletion[h] = "rejected" /\ activation[h] = "rejected"

\* C8: once deactivation and host shutdown have completed, every disposable
\* created by an activate has been released exactly once.
C8_EveryDisposableReleasedOnce ==
  (hostDisposed /\ DeactSettled) => \A d \in created : released[d] = 1

\* C9: stop() moves a Running handle to Stopping with a pending completion;
\* the completion resolves, and the handle becomes Stopped, only through the
\* acknowledgment of the external process: without it both stay as they are;
\* with it the handle eventually becomes Stopped.
C9_StopAwaitsAcknowledgment ==
  /\ [](\A h \in Handles :
          /\ state[h] = "Stopping" => stopCompletion[h] = "pending"
          /\ stopCompletion[h] = "pending" => state[h] = "Stopping"
          /\ stopCompletion[h] = "resolved" => (ack[h] /\ state[h] = "Stopped"))
  /\ [][\A h \in Handles :
          /\ (state[h] = "Running" /\ state'[h] # "Running") =>
                (state'[h] = "Stopping" /\ stopRequested'[h] /\ ~ack'[h])
          /\ (state[h] = "Stopping" /\ ~ack[h]) =>
                (state'[h] = "Stopping" /\ stopCompletion'[h] = "pending")]_vars
  /\ \A h \in Handles : (state[h] = "Stopping" /\ ack[h]) ~> (state[h] = "Stopped")

\* C9 witness: a stop that was acknowledged and has resolved.
C9_Witness ==
  \E h \in Handles : state[h] = "Stopped" /\ ack[h] /\ stopCompletion[h] = "resolved"

\* C10: the reference changes only in the step of an activate that constructs
\* a handle, and then designates that handle; no other step changes it, so
\* it is never cleared.
C10_ReferenceSetOnlyByActivate ==
  [][client' # client =>
        /\ nHandles' = nHandles + 1
        /\ client' = nHandles'
        /\ state[client'] = Absent /\ state'[client'] # Absent]_vars

\* C10 witness: the reference still designates a handle that deactivate
\* stopped and that is Stopped.
C10_Witness ==
  /\ client \in Handles
  /\ state[client] = "Stopped"
  /\ deact.result = "thenable" /\ deact.ref = client

\* C11: the launch command is the value of SERVER_PATH when that variable is
\* present and non-empty, and 'generic-language-server' when it is absent or
\* the empty string.
C11_CommandFromOverride ==
  serverOptions.run.command =
    IF "SERVER_PATH" \in DOMAIN processEnv /\ processEnv["SERVER_PATH"] # ""
      THEN processEnv["SERVER_PATH"]
      ELSE "generic-language-server"

\* C12: the environment of the launch spec has every inherited key with its
\* inherited value, except RUST_LOG, which is 'debug' whatever was inherited.
C12_EnvironmentOverride ==
  LET e == serverOptions.run.env IN
    /\ DOMAIN e = DOMAIN processEnv \cup {"RUST_LOG"}
    /\ e["RUST_LOG"] = "debug"
    /\ \A k \in DOMAIN processEnv \ {"RUST_LOG"} : e[k] = processEnv[k]

\* C12 witness: an activate that inherited RUST_LOG = 'info' next to another
\* variable.
C12_Witness ==
  /\ nHandles > 0
  /\ "RUST_LOG" \in DOMAIN processEnv /\ processEnv["RUST_LOG"] = "info"
  /\ "SERVER_PATH" \in DOMAIN processEnv

\* C16: the run and debug launch specs of an activation have the same command
\* and the same environment.
C16_RunEqualsDebug ==
  /\ serverOptions.run.command = serverOptions.debug.command
  /\ serverOptions.run.env = serverOptions.debug.env

\* C16 witness: an activate whose inherited environment differs from the
\* environment of the launch spec.
C16_Witness ==
  /\ nHandles > 0
  /\ processEnv # serverOptions.run.env
  /\ "SERVER_PATH" \in DOMAIN processEnv

\* C13: a document is in scope exactly when its scheme is 'file' and its
\* language is 'gen', and a document event that reached a session is in scope.
C13_ScopeFilter ==
  /\ \A scheme \in Schemes, language \in Languages :
        Matches(scheme, language) <=> (scheme = "file" /\ language = "gen")
  /\ (forwarded # <<>> /\ forwarded[2] # FileEvent) => forwarded[2] = <<"file", "gen">>

\* C13 witness: a document event reached a session.
C13_Witness ==
  /\ forwarded # <<>>
  /\ forwarded[2] = <<"file", "gen">>

\* C15: every constructed handle has its one watcher, created by its
\* activate; once the session is Stopped the watcher has been released, and
\* a file event reaches a session only while it is Running and its watcher is
\* unreleased.
C15_WatcherReleasedOnStop ==
  /\ [](\A h \in Handles :
          /\ state[h] # Absent <=> <<"watcher", h>> \in created
          /\ state[h] = "Stopped" => released[<<"watcher", h>>] = 1
          /\ state[h] # "Stopped" => released[<<"watcher", h>>] = 0)
  /\ [][(forwarded' # forwarded /\ forwarded'[2] = FileEvent) =>
          /\ state[forwarded'[1]] = "Running"
          /\ released[<<"watcher", forwarded'[1]>>] = 0]_vars

\* C15 witness: a session forwarded a file event and was stopped afterwards.
C15_Witness ==
  \E h \in Handles :
     /\ forwarded = <<h, FileEvent>>
     /\ state[h] = "Stopped"
     /\ released[<<"watcher", h>>] = 1

\* C17: when activate suspends, the command is registered and recorded, the
\* trace channel and the watcher exist, the launch spec is resolved from the
\* environment, the handle is constructed and referenced and start() was
\* called once; activate resolves only when start() has resolved, so never
\* while its handle is Starting.
C17_ActivateAwaitsStart ==
  /\ [](\A h \in Handles :
          /\ activation[h] = "resolved" =>
                (startCompletion[h] = "resolved" /\ state[h] # "Starting")
          /\ activation[h] # "none" =>
                /\ {<<"command", h>>, <<"trace", h>>, <<"watcher", h>>} \subseteq created
                /\ spawnAttempts[h] = 1
                /\ state[h] # Absent
                /\ client >= h)
  /\ [][\A h \in Handles : (activation[h] = "none" /\ activation'[h] # "none") =>
          /\ activation'[h] = "awaiting"
          /\ <<"command", h>> \in subscriptions'
          /\ serverOptions' = ServerOptions(processEnv')
          /\ client' = h
          /\ state'[h] = "Starting" /\ startCompletion'[h] = "pending"]_vars

\* C17 witness: an activate that resolved after its start().
C17_Witness ==
  \E h \in Handles : activation[h] = "resolved" /\ state[h] = "Running"

\* C18: a handle whose start() was rejected is still the one the reference
\* designates (until a later activate replaces it); a deactivate called on it
\* does not take the no-op path but calls stop() on it, and the handle has
\* never been Running.
C18_FailedHandleStaysReferenced ==
  /\ [](\A h \in Handles : startCompletion[h] = "rejected" =>
          /\ client \in Handles /\ client >= h
          /\ nHandles = h => client = h
          /\ state[h] = "Starting"
          /\ (deact.result # "none" /\ deact.ref = h) =>
                (deact.result = "thenable" /\ stopRequested[h]))
  /\ [][(client \in Handles /\ activation[client] = "rejected" /\ deact' # deact) =>
          /\ deact' = [result |-> "thenable", ref |-> client]
          /\ stopRequested'[client]
          /\ state'[client] = "Starting"]_vars

\* C18 witness: deactivate was called after the activate of the referenced
\* handle had been rejected.
C18_Witness ==
  /\ client \in Handles
  /\ activation[client] = "rejected"
  /\ deact = [result |-> "thenable", ref |-> client]
  /\ stopRequested[client]

\* C14: a run of the command handler, whatever its argument and whatever the
\* lifecycle states, never surfaces a fault to its caller: it has either not
\* run or settled with undefined.
C14_CommandOnlyLogs == commandReturn \in {"none", "undefined"}

====
